---- MODULE Spec2Model ----
(***************************************************************************)
(* Model of bulk-lighthouse (current CLI, src/unnamed/part_001): config    *)
(* resolution, the pagespeed and lighthouse schedulers, the per-request    *)
(* audit calls, the result files, the results table and the fail counter.  *)
(* The legacy CLI (src/cli.js) is modelled on its own, in SpecLegacy.      *)
(*                                                                         *)
(* JavaScript objects are functions whose DOMAIN is the set of own keys.   *)
(* A score is a percentage (the API's score in [0,1] times 100).           *)
(***************************************************************************)
EXTENDS Integers, Sequences, FiniteSets, TLC

VARIABLES
    file,             \* the config file on disk: whether it exists, and its JSON
    argv2,            \* process.argv[2]: the config path; in the legacy CLI,
                      \* the URL group, or NoArg
    argv3,            \* process.argv[3]: a group name, or NoArg
    pc,               \* position of the main async function
    config,           \* main's config (line 318)
    exitCode,         \* process.exitCode (0 while unset)
    batchSize,        \* runPagespeed's batchSize (line 272)
    i,                \* index of the strategy being run (1-based)
    j,                \* offset of the current batch in urls (0-based)
    inflight,         \* audit calls awaiting something: <<i, k>> -> stage
                      \* and the categories the call read from its config
    batchResults,     \* the array Promise.all / await fills for the batch
    strategyResults,  \* results of the current strategy so far
    allResults,       \* one list of results per finished strategy
    chrome,           \* number of live browser instances
    files,            \* the result files written: <<dir, name>> -> payload
    tables,           \* per strategy, per row: category -> verdict
    tests,            \* per strategy: [fail |-> n, total |-> m]
    probe             \* inputs and output of formatResult in SpecGrade

vars == <<file, argv2, argv3, pc, config, exitCode, batchSize, i, j, inflight,
          batchResults, strategyResults, allResults, chrome, files, tables,
          tests, probe>>

----------------------------------------------------------------------------
(* Bounds of the model *)

MaxUrls == 3
MaxBatch == 2

----------------------------------------------------------------------------
(* JavaScript object helpers *)

EmptyObj == [k \in {} |-> TRUE]
NoArg == "noarg"
ConfigPath == ".config/lighthouse.json"

Has(obj, k) == k \in DOMAIN obj

Min(a, b) == IF a < b THEN a ELSE b

Extend(f, p, r) == [q \in DOMAIN f \cup {p} |-> IF q = p THEN r ELSE f[q]]

Remove(f, p) == [q \in DOMAIN f \ {p} |-> f[q]]

----------------------------------------------------------------------------
(* Program constants *)

DEFAULT_RESULTS_DIR == "lighthouse-reports"
DefaultBatchSize == 400
DefaultThreshold == 90
DefaultLowerThreshold == 50
DefaultEngine == "pagespeed"
SupportedEngines == {"pagespeed", "lighthouse"}

----------------------------------------------------------------------------
(* Config files the runs start from *)

UrlPool == <<"https://a.io", "https://a.io/b", "https://a.io/c",
             "https://a.io/b/c", "https://b.io">>

UrlList(n) == [k \in 1..n |-> UrlPool[k]]

\* one page listed under both schemes
SchemeTwins == <<"https://a.io/b", "http://a.io/b">>

\* categories: the README example (a custom pass threshold for mobile) and a
\* two-category config with a lower threshold
Perf70 == [performance |-> [threshold |-> [mobile |-> 70]]]
PerfSeo == [performance |-> [threshold |-> [mobile |-> 70, desktop |-> 90]],
            seo |-> [threshold |-> [mobile |-> 95],
                     lowerThreshold |-> [mobile |-> 70]]]

OnDisk(json) == [exists |-> TRUE, json |-> json]
NoFile == [exists |-> FALSE, json |-> EmptyObj]

\* a merge that descends into categories instead of replacing it
SpreadDeep(a, b) ==
    [k \in DOMAIN a \cup DOMAIN b |->
        IF k \in DOMAIN b
        THEN IF k = "categories" /\ k \in DOMAIN a
             THEN [c \in DOMAIN a[k] \cup DOMAIN b[k] |->
                      IF c \in DOMAIN b[k] THEN b[k][c] ELSE a[k][c]]
             ELSE b[k]
        ELSE a[k]]

\* { ...a, ...b }
Spread(a, b) ==
    [k \in DOMAIN a \cup DOMAIN b |-> IF k \in DOMAIN b THEN b[k] ELSE a[k]]

\* Object.keys( config.urls )[0] as a property name, urls being an array
FirstUrlsKey(urls) == IF Len(urls) > 0 THEN "0" ELSE "undefined"

\* getConfig throws: Object.keys( undefined ) at line 37
getConfigThrows(f, a) == f.exists /\ a = NoArg /\ ~Has(f.json, "urls")

\* getConfig returns undefined: the file is not there (lines 29-33)
getConfigUndefined(f) == ~f.exists

\* getConfig's value when it returns one (lines 35-46)
getConfig(f, a) ==
    LET cfg == f.json
        group == IF a # NoArg THEN a ELSE FirstUrlsKey(cfg.urls)
    IN IF Has(cfg, "groups") /\ group \in DOMAIN cfg.groups
       THEN Spread(cfg, cfg.groups[group])
       ELSE cfg

----------------------------------------------------------------------------
(* Result files: writeResultsFile and the file name both engines derive *)

\* The characters of the URLs of UrlPool and SchemeTwins
UrlChars(u) ==
    CASE u = "https://a.io" ->
            <<"h","t","t","p","s",":","/","/","a",".","i","o">>
      [] u = "https://a.io/b" ->
            <<"h","t","t","p","s",":","/","/","a",".","i","o","/","b">>
      [] u = "https://a.io/c" ->
            <<"h","t","t","p","s",":","/","/","a",".","i","o","/","c">>
      [] u = "https://a.io/b/c" ->
            <<"h","t","t","p","s",":","/","/","a",".","i","o","/","b","/","c">>
      [] u = "https://b.io" ->
            <<"h","t","t","p","s",":","/","/","b",".","i","o">>
      [] u = "http://a.io/b" ->
            <<"h","t","t","p",":","/","/","a",".","i","o","/","b">>

HttpChars == <<"h","t","t","p",":","/","/">>
HttpsChars == <<"h","t","t","p","s",":","/","/">>

StartsWith(cs, pre) == Len(cs) >= Len(pre) /\ SubSeq(cs, 1, Len(pre)) = pre

\* url.replace( /https?:\/\//, '' ): the first match is removed
RECURSIVE StripScheme(_)
StripScheme(cs) ==
    IF cs = <<>> THEN <<>>
    ELSE IF StartsWith(cs, HttpsChars) THEN SubSeq(cs, Len(HttpsChars) + 1, Len(cs))
    ELSE IF StartsWith(cs, HttpChars) THEN SubSeq(cs, Len(HttpChars) + 1, Len(cs))
    ELSE <<Head(cs)>> \o StripScheme(Tail(cs))

\* .replace( '/', '-' ): a string pattern replaces the first occurrence only
RECURSIVE ReplaceFirstSlash(_)
ReplaceFirstSlash(cs) ==
    IF cs = <<>> THEN <<>>
    ELSE IF Head(cs) = "/" THEN <<"-">> \o Tail(cs)
    ELSE <<Head(cs)>> \o ReplaceFirstSlash(Tail(cs))

\* slugify, character by character: the replacement character becomes a
\* space, characters outside [\w\s$*_+~.()'"!\-:@] are removed
SlugChar(ch) ==
    IF ch = "-" THEN <<" ">>
    ELSE IF ch \in {"/", "?", "=", "#"} THEN <<>>
    ELSE <<ch>>

RECURSIVE SlugChars(_)
SlugChars(cs) ==
    IF cs = <<>> THEN <<>> ELSE SlugChar(Head(cs)) \o SlugChars(Tail(cs))

RECURSIVE TrimLeft(_)
TrimLeft(cs) ==
    IF cs # <<>> /\ Head(cs) = " " THEN TrimLeft(Tail(cs)) ELSE cs

RECURSIVE TrimRight(_)
TrimRight(cs) ==
    IF cs # <<>> /\ cs[Len(cs)] = " "
    THEN TrimRight(SubSeq(cs, 1, Len(cs) - 1)) ELSE cs

\* slug.replace( /\s+/g, '-' )
RECURSIVE Dashes(_)
Dashes(cs) ==
    IF cs = <<>> THEN <<>>
    ELSE IF Head(cs) = " " THEN <<"-">> \o Dashes(TrimLeft(cs))
    ELSE <<Head(cs)>> \o Dashes(Tail(cs))

slugify(cs) == Dashes(TrimRight(TrimLeft(SlugChars(cs))))

\* `${ date }-${ slugify( ... ) }-${ strategy }`; the date is the same
\* throughout a run and is left out
FileName(url, strategy) ==
    <<slugify(ReplaceFirstSlash(StripScheme(UrlChars(url)))), strategy>>

ResultsDir(cfg) ==
    IF Has(cfg, "resultsDir") /\ cfg.resultsDir # ""
    THEN cfg.resultsDir ELSE DEFAULT_RESULTS_DIR

\* the files after writeResultsFile( fileName, resultsData ): the directory
\* comes from the config as read at the call, a file of that name is replaced
writeResultsFile(fs, cfg, fileName, resultsData) ==
    Extend(fs, <<ResultsDir(cfg), fileName>>, resultsData)

----------------------------------------------------------------------------
(* What the backends answer *)

\* one entry of lighthouseResult.categories: the score in twentieths
\* (13/20 = 0.65, 19/20 = 0.95)
RawEntries == {[score |-> 13], [score |-> 19]}

\* a lighthouseResult for the requested categories, or one without categories
LighthouseResults(cats) ==
    {[categories |-> m] : m \in [cats -> RawEntries]}
        \cup {[runtimeError |-> "ERRORED_DOCUMENT_REQUEST"]}

\* a JSON body of the pagespeed API: an error body or one with a result
Bodies(cats) ==
    {[error |-> "x"]}
        \cup {[lighthouseResult |-> l] : l \in LighthouseResults(cats)}

\* what lighthouse() resolves to: an object with or without lhr
RunnerResults(cats) ==
    {EmptyObj} \cup {[lhr |-> l] : l \in LighthouseResults(cats)}

----------------------------------------------------------------------------
(* The audit calls: runTestsForUrlPagespeed, runTestsForUrlLighthouse *)

Categories(cfg) == DOMAIN cfg.categories

DefaultData(strategy, url) ==
    [url |-> url, strategy |-> strategy, lighthouse |-> EmptyObj]

\* score * 100, the score given in twentieths
Times100(r) == (r * 100) \div 20

\* ( scores, [ category, { score = 0 } ] ) => scores[ category ] = score * 100
Scores(lighthouseResult) ==
    [c \in DOMAIN lighthouseResult.categories |->
        LET entry == lighthouseResult.categories[c]
        IN Times100(IF Has(entry, "score") THEN entry.score ELSE 0)]

AuditData(strategy, url, lighthouseResult) ==
    [url |-> url, strategy |-> strategy, lighthouse |-> Scores(lighthouseResult)]

\* Object.entries( lighthouseResult.categories ) throws a TypeError
EntriesThrow(lighthouseResult) == ~Has(lighthouseResult, "categories")

----------------------------------------------------------------------------
(* Grading: formatResult, getResultsTable and the fail/total reduce *)

\* config.categories?.[ category ]?.[ field ]?.[ strategy ] || dflt
ThresholdOf(cfg, category, field, strategy, dflt) ==
    LET cats == IF Has(cfg, "categories") THEN cfg.categories ELSE EmptyObj
        c == IF Has(cats, category) THEN cats[category] ELSE EmptyObj
        f == IF Has(c, field) THEN c[field] ELSE EmptyObj
    IN IF Has(f, strategy) /\ f[strategy] # 0 THEN f[strategy] ELSE dflt

formatResult(cfg, score, category, strategy) ==
    LET threshold ==
            ThresholdOf(cfg, category, "threshold", strategy, DefaultThreshold)
        lowerThreshold ==
            ThresholdOf(cfg, category, "lowerThreshold", strategy,
                        DefaultLowerThreshold)
    IN IF score >= threshold THEN "pass"
       ELSE IF score >= lowerThreshold THEN "warn"
       ELSE "fail"

\* formatResult( result.lighthouse[ category ], ... ): an undefined score
\* fails both comparisons
Cell(cfg, result, category, strategy) ==
    IF Has(result.lighthouse, category)
    THEN formatResult(cfg, result.lighthouse[category], category, strategy)
    ELSE "fail"

getResultsTable(cfg, results, strategy) ==
    [r \in 1..Len(results) |->
        [url |-> results[r].url,
         cells |-> [c \in Categories(cfg) |-> Cell(cfg, results[r], c, strategy)]]]

\* the reduce without its branch for an empty result
CountResultSkipsEmpty(cfg, acc, result, strategy) ==
    LET failed ==
            {c \in DOMAIN result.lighthouse :
                result.lighthouse[c]
                    < ThresholdOf(cfg, c, "threshold", strategy, DefaultThreshold)}
    IN [fail |-> acc.fail + Cardinality(failed),
        total |-> acc.total + Cardinality(DOMAIN result.lighthouse)]

\* one step of the reduce at lines 355-376
CountResult(cfg, acc, result, strategy) ==
    IF DOMAIN result.lighthouse = {}
    THEN LET totalCategories == Cardinality(DOMAIN cfg.categories)
         IN [fail |-> acc.fail + totalCategories,
             total |-> acc.total + totalCategories]
    ELSE LET failed ==
                {c \in DOMAIN result.lighthouse :
                    result.lighthouse[c]
                        < ThresholdOf(cfg, c, "threshold", strategy, DefaultThreshold)}
         IN [fail |-> acc.fail + Cardinality(failed),
             total |-> acc.total + Cardinality(DOMAIN result.lighthouse)]

RECURSIVE CountTests(_, _, _, _)
CountTests(cfg, acc, results, strategy) ==
    IF results = <<>> THEN acc
    ELSE CountTests(cfg, CountResult(cfg, acc, Head(results), strategy),
                    Tail(results), strategy)

\* hasFailures assigned by every strategy, so the last one decides
RECURSIVE HasFailuresLast(_, _)
HasFailuresLast(flag, counts) ==
    IF counts = <<>> THEN flag
    ELSE HasFailuresLast(Head(counts).fail # 0, Tail(counts))

\* hasFailures after the forEach: set by any strategy with a nonzero fail
RECURSIVE HasFailures(_, _)
HasFailures(flag, counts) ==
    IF counts = <<>> THEN flag
    ELSE HasFailures(IF Head(counts).fail # 0 THEN TRUE ELSE flag, Tail(counts))

----------------------------------------------------------------------------
(* The schedulers: runPagespeed and runLighthouse *)

Engine(cfg) == IF Has(cfg, "engine") THEN cfg.engine ELSE DefaultEngine

\* ( 'batchSize' in config && config.batchSize > 0 ) ? config.batchSize : 400
EffectiveBatchSize(cfg) ==
    IF Has(cfg, "batchSize") /\ cfg.batchSize > 0
    THEN cfg.batchSize ELSE DefaultBatchSize

\* a slice that forgets its end: every remaining URL in one batch
BatchUnbounded(urls, jj, bs) == SubSeq(urls, jj + 1, Len(urls))

\* a slice that ends one element late: batches that overlap
BatchOverlap(urls, jj, bs) == SubSeq(urls, jj + 1, Min(jj + bs + 1, Len(urls)))

\* urls.slice( jj, jj + bs )
Batch(urls, jj, bs) == SubSeq(urls, jj + 1, Min(jj + bs, Len(urls)))

\* every remaining URL started at once, as runPagespeed does with a batch
SingleAll(urls, jj) == SubSeq(urls, jj + 1, Len(urls))

\* the one URL runLighthouse awaits at a time: the loop's element at offset jj
Single(urls, jj) == <<urls[jj + 1]>>

\* results collected in the order the calls complete
PromiseAllPush(results, p, r) == Extend(results, Cardinality(DOMAIN results) + 1, r)

\* Promise.all keeps each result at the index of its promise
PromiseAllStore(results, p, r) == Extend(results, p, r)

\* await Promise.all( ... ) (and await of one call) resumes when all settled
AllSettled(results, n) == DOMAIN results = 1..n

\* The synchronous part of the calls made for a batch, up to their first
\* await: a call made with no categories returns defaultData at once.
Dispatch(ii, jj, batch, stage) ==
    LET cfgNow == getConfig(file, argv3)
        strategy == config'.strategies[ii]
        ids == {<<ii, jj + p>> : p \in 1..Len(batch)}
    IN IF Categories(cfgNow) = {}
       THEN /\ inflight' = inflight
            /\ batchResults' =
                  [p \in 1..Len(batch) |-> DefaultData(strategy, batch[p])]
       ELSE /\ inflight' =
                  [id \in DOMAIN inflight \cup ids |->
                      IF id \in DOMAIN inflight THEN inflight[id]
                      ELSE [st |-> stage, cats |-> Categories(cfgNow)]]
            /\ batchResults' = EmptyObj

\* a call's promise resolves with r
Settle(id, r) ==
    /\ inflight' = Remove(inflight, id)
    /\ batchResults' = PromiseAllStore(batchResults, id[2] - j, r)

\* an exception leaves the main async function: nothing catches it
Abort == pc' = "aborted"

CallStrategy(id) == config.strategies[id[1]]
CallUrl(id) == config.urls[id[2]]

\* the call returning its scores without writing the result file
FinishUnwritten(id, lighthouseResult, wok) ==
    /\ UNCHANGED files
    /\ IF EntriesThrow(lighthouseResult)
       THEN Abort /\ UNCHANGED <<inflight, batchResults>>
       ELSE /\ Settle(id, AuditData(CallStrategy(id), CallUrl(id),
                                    lighthouseResult))
            /\ UNCHANGED pc

\* the call catching the error of its write and returning its scores
FinishWriteIgnored(id, lighthouseResult, wok) ==
    /\ files' = IF wok
                THEN writeResultsFile(files, getConfig(file, argv3),
                                      FileName(CallUrl(id), CallStrategy(id)),
                                      lighthouseResult)
                ELSE files
    /\ IF EntriesThrow(lighthouseResult)
       THEN Abort /\ UNCHANGED <<inflight, batchResults>>
       ELSE /\ Settle(id, AuditData(CallStrategy(id), CallUrl(id),
                                    lighthouseResult))
            /\ UNCHANGED pc

\* lines 181-201 and 113-129: the part of both audit calls that follows the
\* backend's answer. wok: whether the file system accepts the write.
Finish(id, lighthouseResult, wok) ==
    IF ~wok
    THEN Abort /\ UNCHANGED <<inflight, batchResults, files>>
    ELSE /\ files' = writeResultsFile(files, getConfig(file, argv3),
                                      FileName(CallUrl(id), CallStrategy(id)),
                                      lighthouseResult)
         /\ IF EntriesThrow(lighthouseResult)
            THEN Abort /\ UNCHANGED <<inflight, batchResults>>
            ELSE /\ Settle(id, AuditData(CallStrategy(id), CallUrl(id),
                                         lighthouseResult))
                 /\ UNCHANGED pc

----------------------------------------------------------------------------
(* main, up to its first await (lines 317-344) *)

TruthyLength(cfg, key) == Has(cfg, key) /\ Len(cfg[key]) > 0

\* main returning at lines 321-331 without setting process.exitCode
StartKeepsExitCode ==
    /\ pc = "start"
    /\ UNCHANGED <<file, argv2, argv3, strategyResults, allResults, chrome, files,
                   tables, tests, probe>>
    /\ IF getConfigUndefined(file)
       THEN \* getConfig sets the exit code and returns undefined; line 319
            \* destructures it
            /\ exitCode' = 1
            /\ Abort
            /\ UNCHANGED <<config, batchSize, i, j, inflight, batchResults>>
       ELSE IF getConfigThrows(file, argv3)
       THEN /\ Abort
            /\ UNCHANGED <<config, exitCode, batchSize, i, j, inflight,
                           batchResults>>
       ELSE LET cfg == getConfig(file, argv3)
            IN /\ config' = cfg
               /\ IF ~TruthyLength(cfg, "urls") \/ ~TruthyLength(cfg, "strategies")
                  THEN /\ exitCode' = exitCode
                       /\ pc' = "exited"
                       /\ UNCHANGED <<batchSize, i, j, inflight, batchResults>>
                  ELSE /\ exitCode' =
                            IF Engine(cfg) \notin SupportedEngines THEN 1 ELSE exitCode
                       /\ i' = 1
                       /\ j' = 0
                       /\ IF Engine(cfg) = "pagespeed"
                          THEN /\ batchSize' = EffectiveBatchSize(cfg)
                               /\ pc' = "pagespeed"
                               /\ Dispatch(1, 0, Batch(cfg.urls, 0, batchSize'),
                                           "fetch")
                          ELSE /\ batchSize' = batchSize
                               /\ pc' = "lighthouse"
                               /\ Dispatch(1, 0, Single(cfg.urls, 0), "launch")

Start ==
    /\ pc = "start"
    /\ UNCHANGED <<file, argv2, argv3, strategyResults, allResults, chrome, files,
                   tables, tests, probe>>
    /\ IF getConfigUndefined(file)
       THEN \* getConfig sets the exit code and returns undefined; line 319
            \* destructures it
            /\ exitCode' = 1
            /\ Abort
            /\ UNCHANGED <<config, batchSize, i, j, inflight, batchResults>>
       ELSE IF getConfigThrows(file, argv3)
       THEN /\ Abort
            /\ UNCHANGED <<config, exitCode, batchSize, i, j, inflight,
                           batchResults>>
       ELSE LET cfg == getConfig(file, argv3)
            IN /\ config' = cfg
               /\ IF ~TruthyLength(cfg, "urls") \/ ~TruthyLength(cfg, "strategies")
                  THEN /\ exitCode' = 1
                       /\ pc' = "exited"
                       /\ UNCHANGED <<batchSize, i, j, inflight, batchResults>>
                  ELSE /\ exitCode' =
                            IF Engine(cfg) \notin SupportedEngines THEN 1 ELSE exitCode
                       /\ i' = 1
                       /\ j' = 0
                       /\ IF Engine(cfg) = "pagespeed"
                          THEN /\ batchSize' = EffectiveBatchSize(cfg)
                               /\ pc' = "pagespeed"
                               /\ Dispatch(1, 0, Batch(cfg.urls, 0, batchSize'),
                                           "fetch")
                          ELSE /\ batchSize' = batchSize
                               /\ pc' = "lighthouse"
                               /\ Dispatch(1, 0, Single(cfg.urls, 0), "launch")

----------------------------------------------------------------------------
(* runTestsForUrlPagespeed after its awaits *)

\* the fetch awaited outside any try block: its rejection leaves the call
FetchSettleUncaught(id, ok) ==
    /\ pc = "pagespeed"
    /\ id \in DOMAIN inflight
    /\ inflight[id].st = "fetch"
    /\ IF ok
       THEN /\ inflight' = [inflight EXCEPT ![id].st = "json"]
            /\ UNCHANGED <<batchResults, pc>>
       ELSE Abort /\ UNCHANGED <<inflight, batchResults>>
    /\ UNCHANGED <<file, argv2, argv3, config, exitCode, batchSize, i, j,
                   strategyResults, allResults, chrome, files, tables, tests,
                   probe>>

\* await fetch( ... ) settles (line 174)
FetchSettle(id, ok) ==
    /\ pc = "pagespeed"
    /\ id \in DOMAIN inflight
    /\ inflight[id].st = "fetch"
    /\ IF ok
       THEN /\ inflight' = [inflight EXCEPT ![id].st = "json"]
            /\ UNCHANGED batchResults
       ELSE Settle(id, DefaultData(CallStrategy(id), CallUrl(id)))
    /\ UNCHANGED <<file, argv2, argv3, pc, config, exitCode, batchSize, i, j,
                   strategyResults, allResults, chrome, files, tables, tests,
                   probe>>

\* await rawResponse.json() rejects: the body is not JSON (lines 175-179)
JsonReject(id) ==
    /\ pc = "pagespeed"
    /\ id \in DOMAIN inflight
    /\ inflight[id].st = "json"
    /\ Settle(id, DefaultData(CallStrategy(id), CallUrl(id)))
    /\ UNCHANGED <<file, argv2, argv3, pc, config, exitCode, batchSize, i, j,
                   strategyResults, allResults, chrome, files, tables, tests,
                   probe>>

\* await rawResponse.json() resolves with body (lines 175, 181-201)
JsonSettle(id, body, wok) ==
    /\ pc = "pagespeed"
    /\ id \in DOMAIN inflight
    /\ inflight[id].st = "json"
    /\ IF ~Has(body, "lighthouseResult")
       THEN /\ Settle(id, DefaultData(CallStrategy(id), CallUrl(id)))
            /\ UNCHANGED <<pc, files>>
       ELSE Finish(id, body.lighthouseResult, wok)
    /\ UNCHANGED <<file, argv2, argv3, config, exitCode, batchSize, i, j,
                   strategyResults, allResults, chrome, tables, tests, probe>>

\* runPagespeed resumes after await Promise.all( ... ) (lines 282-291)
BatchSettled ==
    /\ pc = "pagespeed"
    /\ AllSettled(batchResults, Len(Batch(config.urls, j, batchSize)))
    /\ UNCHANGED <<file, argv2, argv3, config, exitCode, batchSize, chrome, files,
                   tables, tests, probe>>
    /\ LET results == strategyResults
                        \o [p \in 1..Len(Batch(config.urls, j, batchSize)) |->
                               batchResults[p]]
       IN IF j + batchSize < Len(config.urls)
          THEN /\ strategyResults' = results
               /\ j' = j + batchSize
               /\ Dispatch(i, j', Batch(config.urls, j', batchSize), "fetch")
               /\ UNCHANGED <<pc, i, allResults>>
          ELSE /\ allResults' = Append(allResults, results)
               /\ strategyResults' = <<>>
               /\ i' = i + 1
               /\ j' = 0
               /\ IF i' <= Len(config.strategies)
                  THEN /\ Dispatch(i', 0, Batch(config.urls, 0, batchSize), "fetch")
                       /\ UNCHANGED pc
                  ELSE /\ pc' = "report"
                       /\ batchResults' = EmptyObj
                       /\ UNCHANGED inflight

----------------------------------------------------------------------------
(* runTestsForUrlLighthouse after its awaits *)

\* await chromeLauncher.launch( ... ) settles (line 98)
LaunchSettle(id, ok) ==
    /\ pc = "lighthouse"
    /\ id \in DOMAIN inflight
    /\ inflight[id].st = "launch"
    /\ IF ok
       THEN /\ chrome' = chrome + 1
            /\ inflight' = [inflight EXCEPT ![id].st = "audit"]
            /\ UNCHANGED pc
       ELSE Abort /\ UNCHANGED <<chrome, inflight>>
    /\ UNCHANGED <<file, argv2, argv3, config, exitCode, batchSize, i, j,
                   batchResults, strategyResults, allResults, files, tables,
                   tests, probe>>

\* await lighthouse( ... ) rejects, or resolves with nothing to destructure
\* (line 109)
AuditThrow(id) ==
    /\ pc = "lighthouse"
    /\ id \in DOMAIN inflight
    /\ inflight[id].st = "audit"
    /\ Abort
    /\ UNCHANGED <<file, argv2, argv3, config, exitCode, batchSize, i, j, inflight,
                   batchResults, strategyResults, allResults, chrome, files,
                   tables, tests, probe>>

\* await lighthouse( ... ) resolves with a runner result; chrome.kill() is
\* called (lines 109-111)
AuditSettle(id, runnerResult) ==
    /\ pc = "lighthouse"
    /\ id \in DOMAIN inflight
    /\ inflight[id].st = "audit"
    /\ inflight' = [inflight EXCEPT ![id] = [st |-> "kill", cats |-> @.cats,
                                             res |-> runnerResult]]
    /\ UNCHANGED <<file, argv2, argv3, pc, config, exitCode, batchSize, i, j,
                   batchResults, strategyResults, allResults, chrome, files,
                   tables, tests, probe>>

\* await chrome.kill() resolves; the rest of the call (lines 111-129)
KillSettle(id, wok) ==
    /\ pc = "lighthouse"
    /\ id \in DOMAIN inflight
    /\ inflight[id].st = "kill"
    /\ chrome' = chrome - 1
    /\ IF ~Has(inflight[id].res, "lhr")
       THEN /\ Settle(id, DefaultData(CallStrategy(id), CallUrl(id)))
            /\ UNCHANGED <<pc, files>>
       ELSE Finish(id, inflight[id].res.lhr, wok)
    /\ UNCHANGED <<file, argv2, argv3, config, exitCode, batchSize, i, j,
                   strategyResults, allResults, tables, tests, probe>>

\* runLighthouse resumes after await runTestsForUrlLighthouse( ... )
\* (lines 303-311)
LighthouseSettled ==
    /\ pc = "lighthouse"
    /\ AllSettled(batchResults, Len(Single(config.urls, j)))
    /\ UNCHANGED <<file, argv2, argv3, config, exitCode, batchSize, chrome, files,
                   tables, tests, probe>>
    /\ LET results == Append(strategyResults, batchResults[1])
       IN IF j + 1 < Len(config.urls)
          THEN /\ strategyResults' = results
               /\ j' = j + 1
               /\ Dispatch(i, j', Single(config.urls, j'), "launch")
               /\ UNCHANGED <<pc, i, allResults>>
          ELSE /\ allResults' = Append(allResults, results)
               /\ strategyResults' = <<>>
               /\ i' = i + 1
               /\ j' = 0
               /\ IF i' <= Len(config.strategies)
                  THEN /\ Dispatch(i', 0, Single(config.urls, 0), "launch")
                       /\ UNCHANGED pc
                  ELSE /\ pc' = "report"
                       /\ batchResults' = EmptyObj
                       /\ UNCHANGED inflight

----------------------------------------------------------------------------
(* main after the scheduler returned (lines 346-397) *)

\* a report printed for the strategies finished so far, while the scheduler
\* still awaits the others
ReportEarly ==
    /\ pc \in {"report", "pagespeed", "lighthouse"}
    /\ Len(tables) < Len(allResults)
    /\ LET strategies == config.strategies
           counts == [s \in 1..Len(allResults) |->
                        CountTests(config, [fail |-> 0, total |-> 0],
                                   allResults[s], strategies[s])]
       IN /\ tables' = [s \in 1..Len(allResults) |->
                          getResultsTable(getConfig(file, argv3), allResults[s],
                                          strategies[s])]
          /\ tests' = counts
          /\ exitCode' = IF HasFailures(FALSE, counts) THEN 1 ELSE exitCode
    /\ pc' = IF pc = "report" THEN "done" ELSE pc
    /\ UNCHANGED <<file, argv2, argv3, config, batchSize, i, j, inflight,
                   batchResults, strategyResults, allResults, chrome, files,
                   probe>>

Report ==
    /\ pc = "report"
    /\ LET strategies == config.strategies
           counts == [s \in 1..Len(strategies) |->
                        CountTests(config, [fail |-> 0, total |-> 0],
                                   allResults[s], strategies[s])]
       IN /\ tables' = [s \in 1..Len(strategies) |->
                          getResultsTable(getConfig(file, argv3), allResults[s],
                                          strategies[s])]
          /\ tests' = counts
          /\ exitCode' = IF HasFailures(FALSE, counts) THEN 1 ELSE exitCode
    /\ pc' = "done"
    /\ UNCHANGED <<file, argv2, argv3, config, batchSize, i, j, inflight, batchResults,
                   strategyResults, allResults, chrome, files, probe>>

\* the status the process exits with: an unhandled rejection of the main
\* async function ends the process with status 1
ExitStatus == IF pc = "aborted" THEN 1 ELSE exitCode

Terminated == pc \in {"done", "exited", "aborted"}

----------------------------------------------------------------------------
(* The runs checked *)

\* engine and batchSize as configured: the default engine with every batch
\* size, the pagespeed engine with the default batch size, the lighthouse
\* engine with and without a batch size, and an engine that is not supported
BackendOptions ==
    {[engine |-> "pagespeed"], [engine |-> "lighthouse"],
     [engine |-> "lighthouse", batchSize |-> MaxBatch],
     [engine |-> "webpagetest"]}
        \cup {[batchSize |-> b] : b \in 0..MaxBatch}

\* strategies and categories as configured
ShapeOptions ==
    {[strategies |-> <<>>, categories |-> Perf70],
     [strategies |-> <<"mobile">>, categories |-> EmptyObj],
     [strategies |-> <<"mobile">>, categories |-> Perf70],
     [strategies |-> <<"mobile">>, categories |-> PerfSeo],
     [strategies |-> <<"mobile", "desktop">>, categories |-> Perf70]}

\* a group that replaces engine and urls, in a file that sets both
GroupOptions ==
    {Spread([urls |-> UrlList(1), engine |-> "pagespeed"],
            [groups |-> [local |-> [engine |-> "lighthouse",
                                    urls |-> <<UrlPool[5]>>]]])}

RunConfigs ==
    {Spread(Spread([urls |-> UrlList(n)], sh), b) :
        n \in 0..MaxUrls, sh \in ShapeOptions, b \in BackendOptions}
        \cup {Spread(sh, g) : sh \in ShapeOptions, g \in GroupOptions}
        \cup {sh : sh \in ShapeOptions}
        \cup {[urls |-> UrlList(1), categories |-> Perf70]}
        \cup {[urls |-> SchemeTwins, strategies |-> <<"mobile">>,
                categories |-> Perf70]}

RunFiles == {NoFile} \cup {OnDisk(c) : c \in RunConfigs}

RunArgs(f) ==
    IF Has(f.json, "groups") THEN {NoArg, "local", "staging"} ELSE {NoArg}

Idle ==
    /\ pc = "start"
    /\ config = EmptyObj
    /\ exitCode = 0
    /\ batchSize = 0
    /\ i = 0
    /\ j = 0
    /\ inflight = EmptyObj
    /\ batchResults = EmptyObj
    /\ strategyResults = <<>>
    /\ allResults = <<>>
    /\ chrome = 0
    /\ files = EmptyObj
    /\ tables = <<>>
    /\ tests = <<>>

Init ==
    /\ file \in RunFiles
    /\ argv2 = ConfigPath
    /\ argv3 \in RunArgs(file)
    /\ Idle
    /\ probe = EmptyObj

\* the categories the call of id asked its backend for (lines 88, 147)
RequestedCategories(id) == inflight[id].cats

Next ==
    \/ Start
    \/ \E id \in DOMAIN inflight, ok \in BOOLEAN : FetchSettle(id, ok)
    \/ \E id \in DOMAIN inflight : JsonReject(id)
    \/ \E id \in DOMAIN inflight, wok \in BOOLEAN :
          \E body \in Bodies(RequestedCategories(id)) : JsonSettle(id, body, wok)
    \/ BatchSettled
    \/ \E id \in DOMAIN inflight, ok \in BOOLEAN : LaunchSettle(id, ok)
    \/ \E id \in DOMAIN inflight : AuditThrow(id)
    \/ \E id \in DOMAIN inflight :
          \E rr \in RunnerResults(RequestedCategories(id)) : AuditSettle(id, rr)
    \/ \E id \in DOMAIN inflight, wok \in BOOLEAN : KillSettle(id, wok)
    \/ LighthouseSettled
    \/ Report

Spec == Init /\ [][Next]_vars

----------------------------------------------------------------------------
(* formatResult on its own: every score against every threshold pair *)

ThresholdValues == {0, 1, 30, 50, 70, 90, 100}

ThresholdObjs(field) ==
    {EmptyObj} \cup {[f \in {field} |-> [mobile |-> v]] : v \in ThresholdValues}

GradeConfigs ==
    {[categories |-> [performance |-> Spread(t, l)]] :
        t \in ThresholdObjs("threshold"), l \in ThresholdObjs("lowerThreshold")}

InitGrade ==
    /\ file = NoFile
    /\ argv2 = ConfigPath
    /\ argv3 = NoArg
    /\ Idle
    /\ probe \in [cfg : GradeConfigs, score : 0..100,
                  strategy : {"mobile", "desktop"}, verdict : {"none"}]

Grade ==
    /\ probe.verdict = "none"
    /\ probe' = [probe EXCEPT
                   !.verdict = formatResult(probe.cfg, probe.score,
                                            "performance", probe.strategy)]
    /\ UNCHANGED <<file, argv2, argv3, pc, config, exitCode, batchSize, i, j,
                   inflight, batchResults, strategyResults, allResults, chrome,
                   files, tables, tests>>

NextGrade == Grade

SpecGrade == InitGrade /\ [][NextGrade]_vars

----------------------------------------------------------------------------
(* getConfig on its own: every group against every top-level config *)

\* the names of the README example, and the names line 37 falls back to when
\* urls is an array: its first index, or undefined when it is empty
GroupNames == {"local", "staging", "0", "undefined"}

\* what a group may set: any subset of engine, urls and categories
GroupConfigs ==
    {Spread(Spread(e, u), c) :
        e \in {EmptyObj, [engine |-> "lighthouse"]},
        u \in {EmptyObj, [urls |-> <<UrlPool[5]>>]},
        c \in {EmptyObj, [categories |-> [seo |-> EmptyObj]],
               [categories |-> [performance |-> [lowerThreshold |-> [mobile |-> 30]]]]}}

GroupsOptions ==
    {EmptyObj}
        \cup {[groups |-> [n \in ns |-> g]] :
                ns \in (SUBSET GroupNames) \ {{}}, g \in GroupConfigs}
        \cup {[groups |-> [local |-> g, staging |-> h]] :
                g \in GroupConfigs, h \in GroupConfigs}

TopConfigs ==
    {Spread(Spread([urls |-> UrlList(n), strategies |-> <<"mobile">>,
                    categories |-> Perf70], b), g) :
        n \in {0, 2},
        b \in {EmptyObj, [engine |-> "pagespeed", batchSize |-> MaxBatch]},
        g \in GroupsOptions}

InitConfig ==
    /\ file \in {OnDisk(c) : c \in TopConfigs}
    /\ argv2 = ConfigPath
    /\ argv3 \in {NoArg} \cup GroupNames
    /\ Idle
    /\ probe = EmptyObj

Resolve ==
    /\ pc = "start"
    /\ config' = getConfig(file, argv3)
    /\ pc' = "resolved"
    /\ UNCHANGED <<file, argv2, argv3, exitCode, batchSize, i, j, inflight,
                   batchResults, strategyResults, allResults, chrome, files,
                   tables, tests, probe>>

NextConfig == Resolve

SpecConfig == InitConfig /\ [][NextConfig]_vars

----------------------------------------------------------------------------
(* Runs during which the config file is edited: every getConfig() call     *)
(* parses the file again (line 35)                                         *)

\* what an edit sets: another results directory, other thresholds, one more
\* category, another batch size
ConfigEdits ==
    {[resultsDir |-> "reports"],
     [categories |-> [performance |-> [threshold |-> [mobile |-> 50]]]],
     [categories |-> PerfSeo],
     [batchSize |-> 1]}

\* the file is saved with an edit while main awaits its audits; one edit a run
EditConfig(edit) ==
    /\ pc \in {"pagespeed", "lighthouse"}
    /\ getConfig(file, argv3) = config
    /\ file' = OnDisk(Spread(file.json, edit))
    /\ UNCHANGED <<argv2, argv3, pc, config, exitCode, batchSize, i, j,
                   inflight, batchResults, strategyResults, allResults, chrome,
                   files, tables, tests, probe>>

EditedConfigs ==
    {Spread([urls |-> UrlList(2), strategies |-> <<"mobile">>,
             categories |-> Perf70], b) :
        b \in {[batchSize |-> MaxBatch], [engine |-> "pagespeed"],
               [engine |-> "lighthouse"]}}

InitEdit ==
    /\ file \in {OnDisk(c) : c \in EditedConfigs}
    /\ argv2 = ConfigPath
    /\ argv3 = NoArg
    /\ Idle
    /\ probe = EmptyObj

NextEdit ==
    \/ Next
    \/ \E edit \in ConfigEdits : EditConfig(edit)

SpecEdit == InitEdit /\ [][NextEdit]_vars

----------------------------------------------------------------------------
(* The legacy CLI (src/cli.js): the config is the module process.argv[1]   *)
(* names, process.argv[2] is the URL group, every call of every strategy   *)
(* is started at once.                                                     *)

\* the keys of config.urls in the order the config lists them
UrlGroupOrder == <<"production", "staging">>

\* categories of the legacy README: a threshold per strategy
LegacyPerf == [performance |-> [threshold |-> [desktop |-> 90, mobile |-> 70]]]

\* Object.values( urls )[0], or [] when urls has no key (line 39)
FirstGroup(urls) ==
    LET present == {n \in 1..Len(UrlGroupOrder) : UrlGroupOrder[n] \in DOMAIN urls}
    IN IF present = {} THEN <<>>
       ELSE urls[UrlGroupOrder[CHOOSE n \in present : \A m \in present : n <= m]]

\* config.urls[ urlGroup ] || Object.values( config.urls )[0] || []
\* (an array, even an empty one, is truthy)
getUrls(cfg, urlGroup) ==
    IF urlGroup \in DOMAIN cfg.urls THEN cfg.urls[urlGroup] ELSE FirstGroup(cfg.urls)

\* main's urls (line 201), once main got that far
LegacyUrls == getUrls(config, argv2)

\* the file name of cli.js line 129: the scheme removed, no slash replaced
LegacyFileName(url, strategy) == <<slugify(StripScheme(UrlChars(url))), strategy>>

LegacyData(strategy, url) == [url |-> url, strategy |-> strategy, tests |-> EmptyObj]

\* Object.keys( config.searchParams ) throws when the config has none (line 86)
SearchParamsThrow(cfg) == ~Has(cfg, "searchParams")

\* main up to its await (lines 191-221) and, for every strategy and URL, the
\* call of runTests up to its first await (lines 72-93)
LegacyStart ==
    /\ pc = "start"
    /\ config' = file.json
    /\ UNCHANGED <<file, argv2, argv3, batchSize, i, j, strategyResults,
                   allResults, chrome, files, tables, tests, probe>>
    /\ IF argv2 = NoArg
       THEN /\ exitCode' = 1
            /\ pc' = "exited"
            /\ UNCHANGED <<inflight, batchResults>>
       ELSE LET urls == getUrls(file.json, argv2)
                strategies == file.json.strategies
                ids == (1..Len(strategies)) \X (1..Len(urls))
            IN IF urls = <<>> \/ ~TruthyLength(file.json, "strategies")
               THEN /\ exitCode' = 1
                    /\ pc' = "exited"
                    /\ UNCHANGED <<inflight, batchResults>>
               ELSE IF Categories(file.json) = {}
               THEN /\ pc' = "legacy"
                    /\ batchResults' =
                          [id \in ids |-> LegacyData(strategies[id[1]], urls[id[2]])]
                    /\ UNCHANGED <<exitCode, inflight>>
               ELSE IF SearchParamsThrow(file.json)
               THEN Abort /\ UNCHANGED <<exitCode, inflight, batchResults>>
               ELSE /\ pc' = "legacy"
                    /\ inflight' =
                          [id \in ids |-> [st |-> "prime",
                                           cats |-> Categories(file.json)]]
                    /\ UNCHANGED <<exitCode, batchResults>>

LegacyStrategy(id) == config.strategies[id[1]]
LegacyUrl(id) == LegacyUrls[id[2]]

\* a call of runTests resolves with r: Promise.all keeps it at its index
LegacySettle(id, r) ==
    /\ inflight' = Remove(inflight, id)
    /\ batchResults' = PromiseAllStore(batchResults, id, r)

\* await fetch( testUrl ) settles: the pre-flight request, its failure only
\* logged (lines 92-96); the request to the API follows (line 113)
PrimeSettle(id, ok) ==
    /\ pc = "legacy"
    /\ id \in DOMAIN inflight
    /\ inflight[id].st = "prime"
    /\ inflight' = [inflight EXCEPT ![id].st = "fetch"]
    /\ UNCHANGED <<file, argv2, argv3, pc, config, exitCode, batchSize, i, j,
                   batchResults, strategyResults, allResults, chrome, files,
                   tables, tests, probe>>

\* await fetch( requestUrl ) settles (lines 113-117)
LegacyFetchSettle(id, ok) ==
    /\ pc = "legacy"
    /\ id \in DOMAIN inflight
    /\ inflight[id].st = "fetch"
    /\ IF ok
       THEN /\ inflight' = [inflight EXCEPT ![id].st = "json"]
            /\ UNCHANGED batchResults
       ELSE LegacySettle(id, LegacyData(LegacyStrategy(id), LegacyUrl(id)))
    /\ UNCHANGED <<file, argv2, argv3, pc, config, exitCode, batchSize, i, j,
                   strategyResults, allResults, chrome, files, tables, tests,
                   probe>>

\* await rawResponse.json() rejects (lines 114-117)
LegacyJsonReject(id) ==
    /\ pc = "legacy"
    /\ id \in DOMAIN inflight
    /\ inflight[id].st = "json"
    /\ LegacySettle(id, LegacyData(LegacyStrategy(id), LegacyUrl(id)))
    /\ UNCHANGED <<file, argv2, argv3, pc, config, exitCode, batchSize, i, j,
                   strategyResults, allResults, chrome, files, tables, tests,
                   probe>>

\* await rawResponse.json() resolves with body (lines 114, 119-140)
LegacyJsonSettle(id, body, wok) ==
    /\ pc = "legacy"
    /\ id \in DOMAIN inflight
    /\ inflight[id].st = "json"
    /\ IF ~Has(body, "lighthouseResult")
       THEN /\ LegacySettle(id, LegacyData(LegacyStrategy(id), LegacyUrl(id)))
            /\ UNCHANGED <<pc, files>>
       ELSE IF ~wok
       THEN Abort /\ UNCHANGED <<inflight, batchResults, files>>
       ELSE /\ files' = writeResultsFile(files, file.json,
                                         LegacyFileName(LegacyUrl(id),
                                                        LegacyStrategy(id)),
                                         body.lighthouseResult)
            /\ IF EntriesThrow(body.lighthouseResult)
               THEN Abort /\ UNCHANGED <<inflight, batchResults>>
               ELSE /\ LegacySettle(id,
                          [url |-> LegacyUrl(id),
                           strategy |-> LegacyStrategy(id),
                           tests |-> Scores(body.lighthouseResult)])
                    /\ UNCHANGED pc
    /\ UNCHANGED <<file, argv2, argv3, config, exitCode, batchSize, i, j,
                   strategyResults, allResults, chrome, tables, tests, probe>>

\* formatResult( result.tests[ category ], threshold[ strategy ] ) (lines 150,
\* 181):
\* an undefined score or threshold fails the comparison
LegacyCell(cfg, result, category, strategy) ==
    LET threshold == cfg.categories[category].threshold
    IN IF /\ Has(result.tests, category)
          /\ Has(threshold, strategy)
          /\ result.tests[category] >= threshold[strategy]
       THEN "pass" ELSE "fail"

\* score < categories[ category ].threshold (line 235): the threshold is the
\* object of per-strategy numbers, which compares as NaN
BelowThresholdObject(score, threshold) == FALSE

\* the reduce of lines 232-244
LegacyCount(cfg, results) ==
    LET entries == {<<k, c>> \in (1..Len(results)) \X Categories(cfg) :
                       Has(results[k].tests, c)}
        failed == {e \in entries :
                      BelowThresholdObject(results[e[1]].tests[e[2]],
                                           cfg.categories[e[2]].threshold)}
    IN [fail |-> Cardinality(failed), total |-> Cardinality(entries)]

\* main resumes after await Promise.all( ... ) (lines 220-265)
LegacyReport ==
    /\ pc = "legacy"
    /\ DOMAIN inflight = {}
    /\ LET strategies == config.strategies
           results == [s \in 1..Len(strategies) |->
                          [k \in 1..Len(LegacyUrls) |-> batchResults[<<s, k>>]]]
           counts == [s \in 1..Len(strategies) |-> LegacyCount(config, results[s])]
       IN /\ allResults' = results
          /\ tables' = [s \in 1..Len(strategies) |->
                          [k \in 1..Len(LegacyUrls) |->
                              [url |-> results[s][k].url,
                               cells |-> [c \in Categories(file.json) |->
                                            LegacyCell(file.json, results[s][k],
                                                       c, strategies[s])]]]]
          /\ tests' = counts
          /\ exitCode' = IF HasFailures(FALSE, counts) THEN 1 ELSE exitCode
    /\ pc' = "done"
    /\ UNCHANGED <<file, argv2, argv3, config, batchSize, i, j, inflight,
                   batchResults, strategyResults, chrome, files, probe>>

\* the configs of the legacy runs: URL groups, strategies, categories and
\* search params
LegacyUrlGroups ==
    {[production |-> UrlList(2), staging |-> <<UrlPool[5]>>],
     [production |-> <<>>, staging |-> <<UrlPool[5]>>],
     [staging |-> <<UrlPool[5]>>],
     EmptyObj}

LegacyConfigs ==
    {Spread([urls |-> u, strategies |-> st, categories |-> c], sp) :
        u \in LegacyUrlGroups,
        st \in {<<>>, <<"mobile">>, <<"mobile", "desktop">>},
        c \in {EmptyObj, LegacyPerf},
        sp \in {EmptyObj, [searchParams |-> EmptyObj]}}

\* process.argv[2]: nothing, a group, or a name that is no group
LegacyArgs == {NoArg, "production", "staging", ConfigPath}

InitLegacy ==
    /\ file \in {OnDisk(c) : c \in LegacyConfigs}
    /\ argv2 \in LegacyArgs
    /\ argv3 = NoArg
    /\ Idle
    /\ probe = EmptyObj

NextLegacy ==
    \/ LegacyStart
    \/ \E id \in DOMAIN inflight, ok \in BOOLEAN : PrimeSettle(id, ok)
    \/ \E id \in DOMAIN inflight, ok \in BOOLEAN : LegacyFetchSettle(id, ok)
    \/ \E id \in DOMAIN inflight : LegacyJsonReject(id)
    \/ \E id \in DOMAIN inflight, wok \in BOOLEAN :
          \E body \in Bodies(RequestedCategories(id)) :
              LegacyJsonSettle(id, body, wok)
    \/ LegacyReport

SpecLegacy == InitLegacy /\ [][NextLegacy]_vars

----------------------------------------------------------------------------
(* A pagespeed run whose backend answers with the categories it chooses: the
   response is read as it comes (lines 181, 197), whatever was requested *)

AnswerCategories == {"performance", "seo"}

\* a lighthouseResult with scores for any of the categories, or one without
\* categories
AnyLighthouseResults ==
    {[categories |-> m] :
        m \in UNION {[S -> RawEntries] : S \in SUBSET AnswerCategories}}
        \cup {[runtimeError |-> "ERRORED_DOCUMENT_REQUEST"]}

AnyBodies ==
    {[error |-> "x"]} \cup {[lighthouseResult |-> l] : l \in AnyLighthouseResults}

AnswerConfigs ==
    {[urls |-> UrlList(n), strategies |-> <<"mobile">>, categories |-> c] :
        n \in 1..MaxUrls, c \in {Perf70, PerfSeo}}

InitAnswers ==
    /\ file \in {OnDisk(c) : c \in AnswerConfigs}
    /\ argv2 = ConfigPath
    /\ argv3 = NoArg
    /\ Idle
    /\ probe = EmptyObj

NextAnswers ==
    \/ Start
    \/ \E id \in DOMAIN inflight, ok \in BOOLEAN : FetchSettle(id, ok)
    \/ \E id \in DOMAIN inflight : JsonReject(id)
    \/ \E id \in DOMAIN inflight, wok \in BOOLEAN :
          \E body \in AnyBodies : JsonSettle(id, body, wok)
    \/ BatchSettled
    \/ Report

SpecAnswers == InitAnswers /\ [][NextAnswers]_vars

----------------------------------------------------------------------------
(* A pagespeed run in which every backend call settles: the event loop runs a
   continuation that is ready, so a step that can be taken is taken *)

LiveConfigs ==
    {[urls |-> UrlList(n), strategies |-> st, categories |-> Perf70,
      batchSize |-> b] :
        n \in 1..MaxUrls, st \in {<<"mobile">>, <<"mobile", "desktop">>},
        b \in 1..MaxBatch}

InitLive ==
    /\ file \in {OnDisk(c) : c \in LiveConfigs}
    /\ argv2 = ConfigPath
    /\ argv3 = NoArg
    /\ Idle
    /\ probe = EmptyObj

NextLive ==
    \/ Start
    \/ \E id \in DOMAIN inflight, ok \in BOOLEAN : FetchSettle(id, ok)
    \/ \E id \in DOMAIN inflight : JsonReject(id)
    \/ \E id \in DOMAIN inflight, wok \in BOOLEAN :
          \E body \in Bodies(RequestedCategories(id)) : JsonSettle(id, body, wok)
    \/ BatchSettled
    \/ Report

SpecLive == InitLive /\ [][NextLive]_vars /\ WF_vars(NextLive)

----------------------------------------------------------------------------
(* Properties *)

\* main got past its checks and handed strategies and urls to a scheduler
Scheduled == TruthyLength(config, "urls") /\ TruthyLength(config, "strategies")

PagespeedRun == Scheduled /\ Engine(config) = "pagespeed"

LighthouseRun == Scheduled /\ Engine(config) = "lighthouse"

NoScores(result) == DOMAIN result.lighthouse = {}

\* r is the result of the call for strategy s and URL k
ResultFor(r, s, k) ==
    r.url = config.urls[k] /\ r.strategy = config.strategies[s]

\* C1: in a pagespeed run the calls dispatched and not yet settled are never
\* more than the effective batchSize, and each of them belongs to the current
\* chunk of the current strategy, every earlier chunk and strategy having
\* delivered all its results.
C1_InFlightWithinChunk ==
    PagespeedRun =>
        /\ Cardinality(DOMAIN inflight) <= EffectiveBatchSize(config)
        /\ \A id \in DOMAIN inflight :
              /\ id[1] = i
              /\ id[2] > j
              /\ id[2] <= j + EffectiveBatchSize(config)
              /\ id[2] <= Len(config.urls)
              /\ Len(allResults) = i - 1
              /\ Len(strategyResults) = j

C1_Witness ==
    /\ PagespeedRun
    /\ EffectiveBatchSize(config) = 2
    /\ Cardinality(DOMAIN inflight) = 2
    /\ i = 2

\* C2: in a lighthouse run at most one audit is in flight, whatever batchSize
\* is, and it is the audit of the pair that follows the pairs already
\* settled.
C2_OneAuditAtATime ==
    LighthouseRun =>
        /\ Cardinality(DOMAIN inflight) <= 1
        /\ \A id \in DOMAIN inflight :
              /\ id = <<i, j + 1>>
              /\ Len(allResults) = i - 1
              /\ Len(strategyResults) = j

C2_Witness ==
    /\ LighthouseRun
    /\ Has(config, "batchSize")
    /\ config.batchSize = 2
    /\ DOMAIN inflight = {<<2, 2>>}

\* C3: every result the scheduler holds or returns sits at the position of
\* its own (strategy, URL) pair, in the batch, in the strategy's list and in
\* the list of lists, and the table rows follow the configured URLs.
C3_ResultsInUrlOrder ==
    Scheduled =>
        /\ \A p \in DOMAIN batchResults : ResultFor(batchResults[p], i, j + p)
        /\ \A k \in 1..Len(strategyResults) : ResultFor(strategyResults[k], i, k)
        /\ \A s \in 1..Len(allResults) :
              /\ Len(allResults[s]) = Len(config.urls)
              /\ \A k \in 1..Len(allResults[s]) : ResultFor(allResults[s][k], s, k)
        /\ pc \in {"report", "done"} => Len(allResults) = Len(config.strategies)
        /\ pc = "done" =>
              \A s \in 1..Len(tables) :
                  \A k \in 1..Len(tables[s]) : tables[s][k].url = config.urls[k]

\* the second call of a batch completed before the first
C3_Witness ==
    /\ PagespeedRun
    /\ 2 \in DOMAIN batchResults
    /\ 1 \notin DOMAIN batchResults

\* the backend call of id fails: the fetch rejects, the body is not JSON, or
\* the body has no lighthouseResult
BackendFails(id) ==
    \/ FetchSettle(id, FALSE)
    \/ JsonReject(id)
    \/ \E wok \in BOOLEAN : JsonSettle(id, [error |-> "x"], wok)

\* C4: in a pagespeed run a failed backend call settles its own request with
\* an empty scores map and touches nothing else: the run is not aborted, the
\* siblings stay in flight or keep their results, no file is written; the
\* scheduler can always go on, and a finished run reports a row for every
\* URL of every strategy.
C4_FailureIsolated ==
    /\ [][\A id \in DOMAIN inflight :
            BackendFails(id) =>
                /\ pc' = "pagespeed"
                /\ (id[2] - j) \in DOMAIN batchResults'
                /\ batchResults'[id[2] - j]
                      = DefaultData(config.strategies[id[1]], config.urls[id[2]])
                /\ \A o \in DOMAIN inflight \ {id} :
                      o \in DOMAIN inflight' /\ inflight'[o] = inflight[o]
                /\ \A p \in DOMAIN batchResults :
                      batchResults'[p] = batchResults[p]
                /\ strategyResults' = strategyResults
                /\ allResults' = allResults
                /\ files' = files]_vars
    /\ [](PagespeedRun /\ pc = "pagespeed" =>
            \/ DOMAIN inflight # {}
            \/ AllSettled(batchResults, Len(Batch(config.urls, j, batchSize))))
    /\ [](PagespeedRun /\ pc = "done" =>
            /\ Len(tables) = Len(config.strategies)
            /\ \A s \in 1..Len(tables) :
                  /\ Len(tables[s]) = Len(config.urls)
                  /\ \A k \in 1..Len(tables[s]) :
                        NoScores(allResults[s][k]) \/
                            DOMAIN allResults[s][k].lighthouse = Categories(config))

\* a failed call, a sibling of its chunk and a call of the next strategy, all
\* three reported
C4_Witness ==
    /\ PagespeedRun
    /\ pc = "done"
    /\ EffectiveBatchSize(config) = 2
    /\ Len(config.strategies) = 2
    /\ Len(config.urls) >= 2
    /\ NoScores(allResults[1][1])
    /\ ~NoScores(allResults[1][2])
    /\ ~NoScores(allResults[2][1])

\* the tool crashes for id: launching the browser or running the audit throws
ToolCrashes(id) == LaunchSettle(id, FALSE) \/ AuditThrow(id)

\* C5: in a lighthouse run a tool crash never leaves the audit call: the run
\* goes on and the request settles with an empty scores map.
C5_CrashContained ==
    [][\A id \in DOMAIN inflight :
          ToolCrashes(id) =>
              /\ pc' = "lighthouse"
              /\ (id[2] - j) \in DOMAIN batchResults'
              /\ NoScores(batchResults'[id[2] - j])]_vars

\* the value configured for the strategy, or dflt when none is configured
ConfiguredOr(cfg, category, field, strategy, dflt) ==
    IF /\ Has(cfg.categories[category], field)
       /\ Has(cfg.categories[category][field], strategy)
    THEN cfg.categories[category][field][strategy]
    ELSE dflt

Graded == Has(probe, "verdict") /\ probe.verdict # "none"

\* C6: with T the configured threshold (90 when none is configured for the
\* strategy) and L the configured lowerThreshold (50 when none is), L <= T,
\* a score gets fail iff score < L, warn iff L <= score < T, pass iff
\* score >= T.
C6_VerdictRule ==
    Graded =>
        LET T == ConfiguredOr(probe.cfg, "performance", "threshold",
                              probe.strategy, DefaultThreshold)
            L == ConfiguredOr(probe.cfg, "performance", "lowerThreshold",
                              probe.strategy, DefaultLowerThreshold)
        IN L <= T =>
              /\ probe.verdict = "fail" <=> probe.score < L
              /\ probe.verdict = "warn" <=> (L <= probe.score /\ probe.score < T)
              /\ probe.verdict = "pass" <=> probe.score >= T

\* the cells of strategy s that the table shows as failed
FailCells(s) ==
    {<<k, c>> \in (1..Len(tables[s])) \X Categories(config) :
        tables[s][k].cells[c] = "fail"}

\* C7: for every strategy the fail count equals the number of cells whose
\* verdict is fail, a score in the warn band not being counted.
C7_FailCountIsFailCells ==
    pc = "done" =>
        \A s \in 1..Len(tests) : tests[s].fail = Cardinality(FailCells(s))

\* a fatal config or input error: no config file, a config getConfig cannot
\* read, no URLs or strategies, or an engine that is not supported
ConfigError ==
    \/ getConfigUndefined(file)
    \/ getConfigThrows(file, argv3)
    \/ pc = "exited"
    \/ (Scheduled /\ Engine(config) \notin SupportedEngines)

AnyStrategyFailed == \E s \in 1..Len(tests) : tests[s].fail > 0

\* C8, as claimed, for the runs of the pagespeed engine: at the end of a run
\* the exit status is 1 iff some strategy had a nonzero fail count or a fatal
\* config or input error occurred.
C8_ExitStatusAsClaimed ==
    (PagespeedRun /\ Terminated) =>
        (ExitStatus = 1 <=> (AnyStrategyFailed \/ ConfigError))

\* C8, amended: at the end of a run the exit status is 1 iff some strategy
\* had a nonzero fail count, a fatal config or input error occurred, or an
\* exception left the main function before the report; it is 0 otherwise.
C8_ExitStatus ==
    Terminated =>
        /\ ExitStatus \in {0, 1}
        /\ ExitStatus = 1 <=>
              (AnyStrategyFailed \/ ConfigError \/ pc = "aborted")

\* a failing strategy followed by a passing one
C8_Witness ==
    /\ pc = "done"
    /\ Len(tests) = 2
    /\ tests[1].fail > 0
    /\ tests[2].fail = 0
    /\ ExitStatus = 1

\* the results of strategy s with an empty scores map, by position
EmptyResults(s) == {k \in 1..Len(allResults[s]) : NoScores(allResults[s][k])}

\* the scores of strategy s, and those below the category's threshold
ScoreEntries(s) ==
    {<<k, c>> \in (1..Len(allResults[s])) \X Categories(config) :
        Has(allResults[s][k].lighthouse, c)}

LowEntries(s) ==
    {e \in ScoreEntries(s) :
        allResults[s][e[1]].lighthouse[e[2]]
            < ThresholdOf(config, e[2], "threshold", config.strategies[s],
                          DefaultThreshold)}

\* C9: every result with an empty scores map adds the number of configured
\* categories to the fail count and to the total of its strategy, so a run
\* in which a backend call failed ends with exit status 1.
C9_EmptyResultFailsAllCategories ==
    /\ pc = "done" =>
          \A s \in 1..Len(tests) :
              LET n == Cardinality(Categories(config))
                  e == Cardinality(EmptyResults(s))
              IN /\ tests[s].fail = n * e + Cardinality(LowEntries(s))
                 /\ tests[s].total = n * e + Cardinality(ScoreEntries(s))
    /\ (/\ Terminated
        /\ Scheduled
        /\ Categories(config) # {}
        /\ \/ \E s \in 1..Len(allResults) : EmptyResults(s) # {}
           \/ \E k \in 1..Len(strategyResults) : NoScores(strategyResults[k])
           \/ \E p \in DOMAIN batchResults : NoScores(batchResults[p]))
       => ExitStatus = 1

\* two categories, one failed call among passing ones
C9_Witness ==
    /\ pc = "done"
    /\ Cardinality(Categories(config)) = 2
    /\ Len(config.urls) = 2
    /\ EmptyResults(1) = {2}
    /\ tests[1].fail = 2
    /\ tests[1].total = 4
    /\ ExitStatus = 1

\* the group named on the command line, when groups has it
NamedGroup ==
    /\ pc = "resolved"
    /\ argv3 # NoArg
    /\ Has(file.json, "groups")
    /\ argv3 \in DOMAIN file.json.groups

\* C10: when the group named on the command line exists, the active config
\* has the group's value for every key of the group and the top-level value
\* for every other key, and no other key.
C10_GroupReplacesWholeKeys ==
    NamedGroup =>
        LET group == file.json.groups[argv3]
        IN /\ DOMAIN config = DOMAIN file.json \cup DOMAIN group
           /\ \A k \in DOMAIN group : config[k] = group[k]
           /\ \A k \in DOMAIN file.json \ DOMAIN group : config[k] = file.json[k]

\* the group sets categories and urls, the top level sets engine
C10_Witness ==
    /\ NamedGroup
    /\ Has(file.json.groups[argv3], "categories")
    /\ Has(file.json.groups[argv3], "urls")
    /\ ~Has(file.json.groups[argv3], "engine")
    /\ Has(file.json, "engine")
    /\ config.categories = [seo |-> EmptyObj]
    /\ config.engine = "pagespeed"

\* C11: when no group name is given, the active config is the top-level
\* config unchanged, whatever groups the file defines.
C11_NoGroupIsTopLevel ==
    (pc = "resolved" /\ argv3 = NoArg) => config = file.json

\* the legacy config lists a first URL group with URLs, strategies,
\* categories and search params
FirstGroupConfigured ==
    /\ FirstGroup(file.json.urls) # <<>>
    /\ TruthyLength(file.json, "strategies")
    /\ Categories(file.json) # {}
    /\ Has(file.json, "searchParams")

\* C12: in the legacy CLI, when no group name is given, the run is not
\* refused: the URLs of the first group configured under urls are audited
\* and a run that ends normally has reported them.
C12_FirstGroupByDefault ==
    (argv2 = NoArg /\ FirstGroupConfigured /\ pc # "start") =>
        /\ pc \in {"legacy", "done", "aborted"}
        /\ pc = "done" =>
              \A s \in 1..Len(tables) :
                  /\ Len(tables[s]) = Len(FirstGroup(file.json.urls))
                  /\ \A k \in 1..Len(tables[s]) :
                        tables[s][k].url = FirstGroup(file.json.urls)[k]

\* C13: within one run every component works from the active config main
\* resolved: whatever happens to the config file meanwhile, the categories
\* each call requests, the directory of each result file, the batch size and
\* the verdicts of the table are those of that config.
C13_OneConfigPerRun ==
    Scheduled =>
        /\ \A id \in DOMAIN inflight : inflight[id].cats = Categories(config)
        /\ \A f \in DOMAIN files : f[1] = ResultsDir(config)
        /\ pc = "pagespeed" => batchSize = EffectiveBatchSize(config)
        /\ pc = "done" =>
              \A s \in 1..Len(tables) :
                  tables[s] = getResultsTable(config, allResults[s],
                                              config.strategies[s])

MissingOrEmpty(cfg, key) == ~Has(cfg, key) \/ cfg[key] = <<>>

\* the config file is absent, or the active config has no urls or no
\* strategies
InputMissing ==
    IF ~file.exists THEN TRUE
    ELSE IF argv3 = NoArg /\ ~Has(file.json, "urls") THEN TRUE
    ELSE \/ MissingOrEmpty(getConfig(file, argv3), "urls")
         \/ MissingOrEmpty(getConfig(file, argv3), "strategies")

\* C14: if the config file is absent, or urls or strategies is missing or
\* empty in the active config, no audit call is ever made, no browser is
\* launched, no result file is written, and the run ends at once with exit
\* status 1.
C14_NoInputNoAudit ==
    InputMissing =>
        /\ DOMAIN inflight = {}
        /\ DOMAIN batchResults = {}
        /\ DOMAIN files = {}
        /\ strategyResults = <<>>
        /\ allResults = <<>>
        /\ tables = <<>>
        /\ chrome = 0
        /\ pc \in {"start", "exited", "aborted"}
        /\ pc # "start" => ExitStatus = 1

\* a config with URLs and no strategies
C14_Witness ==
    /\ pc = "exited"
    /\ TruthyLength(config, "urls")
    /\ ~Has(config, "strategies")
    /\ ExitStatus = 1

\* the summary line of strategy s is 'All tests passed.' (lines 379-389)
AllPassedReported(s) == pc = "done" /\ tests[s].fail = 0

\* C15: a config whose categories mapping is empty is rejected: the run ends
\* with exit status 1 and reports for no strategy that all tests passed.
C15_EmptyCategoriesRejected ==
    (Terminated /\ Has(config, "categories") /\ Categories(config) = {}) =>
        /\ ExitStatus = 1
        /\ \A s \in 1..Len(tests) : ~AllPassedReported(s)

\* the result file of r, in the directory of the active config
FileOf(r) == <<ResultsDir(config), FileName(r.url, r.strategy)>>

\* the results the scheduler holds
HeldResults ==
    {batchResults[p] : p \in DOMAIN batchResults}
        \cup {strategyResults[k] : k \in 1..Len(strategyResults)}
        \cup UNION {{allResults[s][k] : k \in 1..Len(allResults[s])} :
                       s \in 1..Len(allResults)}

\* C16: when a call hands a result with scores to the scheduler, the result
\* file of its URL and strategy holds the payload the scores come from, so
\* every result with scores the scheduler holds (and any table) has its file;
\* a call that hands over an empty result, or crashes, leaves the files as
\* they were.
C16_PersistedBeforeHandover ==
    /\ [][\A id \in DOMAIN inflight :
            id \notin DOMAIN inflight' =>
                LET r == batchResults'[id[2] - j]
                IN IF NoScores(r)
                   THEN files' = files
                   ELSE /\ FileOf(r) \in DOMAIN files'
                        /\ Scores(files'[FileOf(r)]) = r.lighthouse
                        /\ r.url = config.urls[id[2]]
                        /\ r.strategy = config.strategies[id[1]]]_vars
    /\ [][\A id \in DOMAIN inflight : ToolCrashes(id) => files' = files]_vars
    /\ [](Scheduled =>
            \A r \in HeldResults : ~NoScores(r) => FileOf(r) \in DOMAIN files)

\* one call of a batch failed, the other returned scores: one file
C16_Witness ==
    /\ PagespeedRun
    /\ DOMAIN batchResults = {1, 2}
    /\ NoScores(batchResults[1])
    /\ ~NoScores(batchResults[2])
    /\ DOMAIN files = {FileOf(batchResults[2])}

\* C17: any two requests of a run that differ in URL or in strategy derive
\* different result-file names, so none writes the file of another.
C17_DistinctFileIds ==
    Scheduled =>
        \A s, t \in 1..Len(config.strategies) :
            \A k, l \in 1..Len(config.urls) :
                (config.urls[k] # config.urls[l]
                    \/ config.strategies[s] # config.strategies[t])
                => FileName(config.urls[k], config.strategies[s])
                       # FileName(config.urls[l], config.strategies[t])

\* the step sends the audit request of id to its backend: the call starts to
\* await the fetch of the API, or the audit of the local tool
AuditRequestSent(id) ==
    /\ id \in DOMAIN inflight'
    /\ inflight'[id].st \in {"fetch", "audit"}
    /\ ~(id \in DOMAIN inflight /\ inflight[id].st = inflight'[id].st)

\* C18: the audit request of a page is sent by the continuation of a
\* pre-flight request to that page: the call was awaiting its pre-flight
\* request, which has settled, when the audit request goes out.
C18_PreflightFirst ==
    [][\A id \in DOMAIN inflight' :
          AuditRequestSent(id) =>
              (id \in DOMAIN inflight /\ inflight[id].st = "prime")]_vars

Scheduling == pc \in {"pagespeed", "lighthouse"}

\* the chunk size of the run's scheduler: the batch size, one for lighthouse
ChunkSize ==
    IF Engine(config) = "pagespeed" THEN EffectiveBatchSize(config) ELSE 1

\* the URL positions of the chunk at offset jj
ChunkAt(jj) == (jj + 1)..Min(jj + ChunkSize, Len(config.urls))

\* the step starts the calls of a chunk
ChunkStarts == Scheduling' /\ (pc = "start" \/ <<i', j'>> # <<i, j>>)

\* C19: for both engines the chunks of a strategy are the consecutive slices
\* of at most the chunk size that cover the URL list, strategy after
\* strategy; the calls started for a chunk are those of its URLs, each once,
\* every one of them going to the backend when categories are configured;
\* at any time each call of the current chunk is either in flight or
\* settled, all earlier ones have delivered, and the scheduler returns one
\* result per URL for every strategy.
C19_EveryPairOnce ==
    /\ [][ChunkStarts =>
            /\ \/ pc = "start" /\ i' = 1 /\ j' = 0
               \/ i' = i /\ j' = j + ChunkSize /\ j' < Len(config.urls)
               \/ /\ i' = i + 1 /\ j' = 0
                  /\ j + ChunkSize >= Len(config.urls)
                  /\ i' <= Len(config.strategies)
            /\ IF Categories(config') = {}
               THEN /\ DOMAIN inflight' = {}
                    /\ DOMAIN batchResults'
                          = {k - j' : k \in (j' + 1)..Min(j' + ChunkSize',
                                                          Len(config'.urls))}
               ELSE /\ DOMAIN inflight'
                          = {i'} \X ((j' + 1)..Min(j' + ChunkSize',
                                                   Len(config'.urls)))
                    /\ DOMAIN batchResults' = {}]_vars
    /\ [][~ChunkStarts => DOMAIN inflight' \subseteq DOMAIN inflight]_vars
    /\ [](Scheduling =>
            /\ i \in 1..Len(config.strategies)
            /\ j < Len(config.urls)
            /\ j % ChunkSize = 0
            /\ Cardinality(ChunkAt(j)) <= ChunkSize
            /\ Len(allResults) = i - 1
            /\ Len(strategyResults) = j
            /\ \A id \in DOMAIN inflight :
                  id[1] = i /\ (id[2] - j) \notin DOMAIN batchResults
            /\ {id[2] : id \in DOMAIN inflight}
                  \cup {j + p : p \in DOMAIN batchResults} = ChunkAt(j))
    /\ []((Scheduled /\ pc \in {"report", "done"}) =>
            /\ Len(allResults) = Len(config.strategies)
            /\ \A s \in 1..Len(allResults) :
                  Len(allResults[s]) = Len(config.urls))

\* no call failed; the second chunk of the second strategy is in flight
C19_Witness ==
    /\ PagespeedRun
    /\ pc = "pagespeed"
    /\ ChunkSize = 2
    /\ Len(config.urls) = 3
    /\ i = 2
    /\ j = 2
    /\ DOMAIN inflight = {<<2, 3>>}
    /\ \A r \in HeldResults : ~NoScores(r)

\* C20: while any request is still to settle no table and no fail count
\* exists and the exit code is not 1 unless the engine was refused; tables
\* and counts exist only once every strategy holds a result for every URL
\* and nothing is in flight, and the exit code is then set from the counts
\* of all strategies.
C20_ReportAfterBarrier ==
    /\ (Scheduling \/ pc = "report") =>
          /\ tables = <<>>
          /\ tests = <<>>
          /\ exitCode = 1 => Engine(config) \notin SupportedEngines
    /\ (tables # <<>> \/ tests # <<>>) =>
          /\ pc = "done"
          /\ DOMAIN inflight = {}
          /\ Len(tables) = Len(config.strategies)
          /\ Len(tests) = Len(config.strategies)
          /\ Len(allResults) = Len(config.strategies)
          /\ \A s \in 1..Len(allResults) :
                /\ Len(allResults[s]) = Len(config.urls)
                /\ Len(tables[s]) = Len(config.urls)
                /\ tests[s] = CountTests(config, [fail |-> 0, total |-> 0],
                                         allResults[s], config.strategies[s])
    /\ pc = "done" =>
          (exitCode = 1 <=>
              (AnyStrategyFailed \/ Engine(config) \notin SupportedEngines))

\* the first strategy passed, the second failed
C20_Witness ==
    /\ pc = "done"
    /\ Len(tests) = 2
    /\ tests[1].fail = 0
    /\ tests[2].fail > 0
    /\ exitCode = 1

\* a lighthouseResult without a category -> score map
NoScoreMap == [runtimeError |-> "ERRORED_DOCUMENT_REQUEST"]

\* C21: in a pagespeed run a response whose lighthouseResult has no
\* category -> score map (its file written) settles its request with an empty
\* scores map: the run is not ended and the other calls of the chunk are as
\* they were.
C21_NoScoreMapIsFailure ==
    [][\A id \in DOMAIN inflight :
          JsonSettle(id, [lighthouseResult |-> NoScoreMap], TRUE) =>
              /\ pc' = "pagespeed"
              /\ (id[2] - j) \in DOMAIN batchResults'
              /\ NoScores(batchResults'[id[2] - j])
              /\ \A o \in DOMAIN inflight \ {id} :
                    o \in DOMAIN inflight' /\ inflight'[o] = inflight[o]]_vars

\* a step in which writeResultsFile throws for the request id
WriteFails(id) ==
    \/ \E body \in Bodies(RequestedCategories(id)) :
          Has(body, "lighthouseResult") /\ JsonSettle(id, body, FALSE)
    \/ /\ pc = "lighthouse"
       /\ inflight[id].st = "kill"
       /\ Has(inflight[id].res, "lhr")
       /\ KillSettle(id, FALSE)

\* a chunk or a strategy of the run is not dispatched yet
WorkLeft ==
    \/ i < Len(config.strategies)
    \/ j + (IF pc = "lighthouse" THEN 1 ELSE batchSize) < Len(config.urls)

\* C22: a step in which the write of a result file fails ends the run by an
\* exception, with the scheduler's position and the calls in flight as they
\* were; a run ended by an exception takes no further step (no later chunk or
\* strategy), has no table and no summary, and its exit status is not 0.
C22_WriteErrorPropagates ==
    /\ [][\A id \in DOMAIN inflight :
             WriteFails(id) =>
                 /\ pc' = "aborted"
                 /\ <<i, j, inflight, strategyResults, allResults>>' =
                        <<i, j, inflight, strategyResults, allResults>>
                 /\ files' = files]_vars
    /\ [][pc # "aborted"]_vars
    /\ [](pc = "aborted" => tables = <<>> /\ tests = <<>> /\ ExitStatus # 0)

\* a pagespeed run ended in its second chunk with work left, every file
\* written so far holding a score map: a write failed
C22_Witness ==
    /\ PagespeedRun
    /\ pc = "aborted"
    /\ j > 0
    /\ WorkLeft
    /\ DOMAIN files # {}
    /\ \A k \in DOMAIN files : Has(files[k], "categories")

\* the scores of strategy s for categories that are not configured
ExtraEntries(s) ==
    {<<k, c>> \in (1..Len(allResults[s])) \X AnswerCategories :
        /\ c \notin Categories(config)
        /\ Has(allResults[s][k].lighthouse, c)}

\* C23: a score for a category that is not configured adds nothing to the
\* fail count or the total of its strategy: the counts are those of the
\* configured categories' scores and of the empty results.
C23_UnconfiguredIgnored ==
    pc = "done" =>
        \A s \in 1..Len(tests) :
            LET n == Cardinality(Categories(config))
                e == Cardinality(EmptyResults(s))
                counted == [fail |-> n * e + Cardinality(LowEntries(s)),
                            total |-> n * e + Cardinality(ScoreEntries(s))]
            IN ExtraEntries(s) # {} => tests[s] = counted

\* the cells the reduce counts for strategy s: every score of a result, or
\* every configured category for a result without scores
CountedCells(s) ==
    {<<k, c>> \in (1..Len(allResults[s])) \X AnswerCategories :
        IF NoScores(allResults[s][k])
        THEN c \in Categories(config)
        ELSE Has(allResults[s][k].lighthouse, c)}

\* the cells the table of strategy s shows
ShownCells(s) ==
    {<<k, c>> \in (1..Len(tables[s])) \X AnswerCategories :
        c \in DOMAIN tables[s][k].cells}

\* C24: for every strategy whose results hold scores of configured categories
\* only, some of them possibly missing, the total of the summary is the
\* number of URLs times the number of configured categories, which is the
\* number of cells of the table, and the cells counted are the cells shown.
C24_TotalIsUrlsTimesCategories ==
    pc = "done" =>
        \A s \in 1..Len(tests) :
            ExtraEntries(s) = {} =>
            /\ tests[s].total
                  = Len(config.urls) * Cardinality(Categories(config))
            /\ tests[s].total = Cardinality(ShownCells(s))
            /\ tests[s].total = Cardinality(CountedCells(s))
            /\ CountedCells(s) = ShownCells(s)

\* the run ended with every chunk of every strategy dispatched and settled, a
\* table and a summary for every strategy in the configured order, and an
\* exit status
Reported ==
    /\ pc = "done"
    /\ Len(allResults) = Len(config.strategies)
    /\ \A s \in 1..Len(allResults) :
          /\ Len(allResults[s]) = Len(config.urls)
          /\ \A k \in 1..Len(allResults[s]) : ResultFor(allResults[s][k], s, k)
    /\ Len(tables) = Len(config.strategies)
    /\ Len(tests) = Len(config.strategies)
    /\ ExitStatus \in {0, 1}

\* the run was ended by the exception of a write: every file written so far
\* holds a score map, so no call threw after its write
WriteFailed ==
    /\ pc = "aborted"
    /\ \A k \in DOMAIN files : Has(files[k], "categories")

\* C25: when every backend call settles, a pagespeed run with a valid
\* config ends with every chunk of every strategy dispatched, a summary for
\* every strategy and an exit status, unless the write of a result file
\* failed.
C25_RunReachesSummaries ==
    (PagespeedRun /\ pc = "pagespeed") ~> (Reported \/ WriteFailed)

\* C26: with an engine that is neither pagespeed nor lighthouse the run sets
\* exit status 1 and stops: no audit is in flight or settled with either
\* backend and no browser is launched.
C26_UnsupportedEngineStops ==
    (Scheduled /\ Engine(config) \notin SupportedEngines) =>
        /\ ExitStatus = 1
        /\ pc = "exited"
        /\ DOMAIN inflight = {}
        /\ DOMAIN batchResults = {}
        /\ strategyResults = <<>>
        /\ allResults = <<>>
        /\ chrome = 0

\* a browser launched by a call whose audit has not settled or whose kill is
\* awaited
BrowserInUse ==
    /\ pc = "lighthouse"
    /\ \E id \in DOMAIN inflight : inflight[id].st \in {"audit", "kill"}

\* C27: in a lighthouse run at most one browser is alive, and a browser is
\* alive only while the call that launched it awaits its audit or its kill:
\* once the call returned or failed, the audit having thrown included, its
\* browser is killed.
C27_BrowserKilled ==
    LighthouseRun =>
        /\ chrome <= 1
        /\ chrome = 1 => BrowserInUse

\* the scores of strategy s that are below the threshold their category
\* configures for the strategy
LegacyLowScores(s) ==
    {<<k, c>> \in (1..Len(allResults[s])) \X Categories(config) :
        LET threshold == config.categories[c].threshold
            strategy == config.strategies[s]
        IN /\ Has(allResults[s][k].tests, c)
           /\ Has(threshold, strategy)
           /\ allResults[s][k].tests[c] < threshold[strategy]}

\* the cells of strategy s that the legacy table shows as failed
LegacyFailCells(s) ==
    {<<k, c>> \in (1..Len(tables[s])) \X Categories(config) :
        tables[s][k].cells[c] = "fail"}

\* C28: in the legacy CLI the fail count of every strategy is the number of
\* returned scores below the threshold of their category for the strategy,
\* which are the cells with a score that the table shows as failed, and the
\* exit status is 1 whenever there is such a cell.
C28_LegacyFailCount ==
    pc = "done" =>
        \A s \in 1..Len(tests) :
            /\ LegacyLowScores(s) =
                  {e \in LegacyFailCells(s) :
                      Has(allResults[s][e[1]].tests, e[2])}
            /\ tests[s].fail = Cardinality(LegacyLowScores(s))
            /\ LegacyLowScores(s) # {} => ExitStatus = 1

====
